---------------------------- MODULE Spec2Model ----------------------------
(***************************************************************************)
(* Model of the overlay assistant: the renderer's chat store and handlers  *)
(* (renderer/src/App.tsx), the main process' overlay and IPC handlers      *)
(* (src/main.ts) and the LLM relay (LLMService).                           *)
(*                                                                         *)
(* A text is a sequence of tokens.  A token is one character ("a", " ",    *)
(* "q") or one of the fixed user-facing texts of the program taken whole;  *)
(* none of the fixed texts starts or ends with whitespace.                 *)
(***************************************************************************)
EXTENDS Integers, Sequences, FiniteSets, TLC

VARIABLES
    store,            \* the zustand chat store (useChatStore)
    ipc,              \* main -> renderer messages in flight, in sending order
    app,              \* life cycle of the main process: "starting", "ready", "crashed"
    apiKey,           \* process.env['OPENAI_API_KEY'] || ''
    isOverlayVisible, \* OverlayApp.isOverlayVisible
    handler,          \* per request: the 'send-chat-message-stream' handler's position
    yielded,          \* content deltas the provider has delivered so far, over all requests
    nextReq,          \* number of streaming requests invoked so far
    reply,            \* what the last 'send-chat-message' invoke came back with
    fed,              \* history: the chunks appended in the session, concatenated
    session,          \* history: the stream session since the last startStreaming
    bufOwner,         \* history: the requests whose chunks are in store.streamContent
    call,             \* the last direct call of a function of the relay, with its result
    relayed,          \* history: per request, the deltas the provider delivered
    captures,         \* history: the runs of captureScreen so far
    listeners,        \* how many times the App's effect has registered its listeners
    overlayWindow     \* whether the BrowserWindow of the overlay is "shown" or "hidden"

vars == <<store, ipc, app, apiKey, isOverlayVisible, handler, yielded, nextReq,
          reply, fed, session, bufOwner, call, relayed, captures, listeners, overlayWindow>>

-----------------------------------------------------------------------------
(* Bounds of the model *)

MaxRequests == 2
MaxChunks == 2
MaxQueue == 2
MaxLines == 3
MaxCaptures == 2
MaxEffectRuns == 2

Requests == 1..MaxRequests

-----------------------------------------------------------------------------
(* Texts *)

\* The characters String.prototype.trim removes.
WhiteSpace == {" "}

RECURSIVE TrimStart(_)
TrimStart(s) ==
    IF s # <<>> /\ Head(s) \in WhiteSpace THEN TrimStart(Tail(s)) ELSE s

RECURSIVE TrimEnd(_)
TrimEnd(s) ==
    IF s # <<>> /\ s[Len(s)] \in WhiteSpace
    THEN TrimEnd(SubSeq(s, 1, Len(s) - 1))
    ELSE s

\* String.prototype.trim
Trim(s) == TrimEnd(TrimStart(s))

\* What the user can type into the input field.
InputValues == {<<" ">>, <<"q", " ">>}

\* The non-empty content deltas a provider frame can carry.
Chunks == {<<"a">>, <<" ">>}

DefaultPlaceholder == "Ask me anything... (Enter to chat, Cmd+Enter to capture screen)"

StreamErrorMessage == <<"Sorry, there was an error processing your request.">>

ScreenPlaceholder == "What would you like to know about this screen?"

CaptureFailedMessage == <<"Failed to capture screen. Please try again.">>


-----------------------------------------------------------------------------
(* The chat store: useChatStore *)

InitialStore ==
    [ messages          |-> <<>>,
      inputValue        |-> <<>>,
      placeholder       |-> DefaultPlaceholder,
      isStreaming       |-> FALSE,
      streamContent     |-> <<>>,
      isLoading         |-> FALSE,
      isProcessing      |-> FALSE,
      currentScreenData |-> "null",
      isScreenCaptured  |-> FALSE ]

\* id and timestamp (Date.now, Math.random) are left out: nothing reads them.
addMessage(s, content, type) ==
    [s EXCEPT !.messages = Append(@, [content |-> content, type |-> type])]

setInputValue(s, value) == [s EXCEPT !.inputValue = value]

setPlaceholder(s, value) == [s EXCEPT !.placeholder = value]

startStreaming(s) == [s EXCEPT !.isStreaming = TRUE, !.streamContent = <<>>]

\* Mutant: every chunk is also put in the log as a message of its own.
appendStreamContentAsMessage(s, chunk) ==
    [s EXCEPT !.streamContent = @ \o chunk,
              !.messages = Append(@, [content |-> chunk, type |-> "assistant"])]

appendStreamContent(s, chunk) == [s EXCEPT !.streamContent = @ \o chunk]

\* Mutant: the buffer is committed as it is, untrimmed.
finishStreamingUntrimmed(s) ==
    LET cleared == [s EXCEPT !.isStreaming = FALSE,
                             !.streamContent = <<>>,
                             !.isLoading = FALSE,
                             !.isProcessing = FALSE]
    IN  IF s.streamContent # <<>>
        THEN [cleared EXCEPT !.messages =
                Append(@, [content |-> s.streamContent, type |-> "assistant"])]
        ELSE cleared

\* Mutant: finishStreaming leaves isLoading as it is.
finishStreamingKeepsLoading(s) ==
    LET finalContent == Trim(s.streamContent)
        cleared == [s EXCEPT !.isStreaming = FALSE,
                             !.streamContent = <<>>,
                             !.isProcessing = FALSE]
    IN  IF finalContent # <<>>
        THEN addMessage(cleared, finalContent, "assistant")
        ELSE cleared

finishStreaming(s) ==
    LET finalContent == Trim(s.streamContent)
        cleared == [s EXCEPT !.isStreaming = FALSE,
                             !.streamContent = <<>>,
                             !.isLoading = FALSE,
                             !.isProcessing = FALSE]
    IN  IF finalContent # <<>>
        THEN addMessage(cleared, finalContent, "assistant")
        ELSE cleared

\* Mutant: setLoading leaves isLoading as it is.
setLoadingIgnored(s, loading) == s

setLoading(s, loading) == [s EXCEPT !.isLoading = loading]

setProcessing(s, processing) == [s EXCEPT !.isProcessing = processing]

setScreenData(s, data) == [s EXCEPT !.currentScreenData = data]

setScreenCaptured(s, captured) == [s EXCEPT !.isScreenCaptured = captured]

\* Mutant: clearState empties the message log as well.
clearStateAndMessages(s) ==
    [s EXCEPT !.messages = <<>>,
              !.inputValue = <<>>,
              !.currentScreenData = "null",
              !.isScreenCaptured = FALSE,
              !.isLoading = FALSE,
              !.isProcessing = FALSE,
              !.isStreaming = FALSE,
              !.streamContent = <<>>,
              !.placeholder = DefaultPlaceholder]

\* Mutant: clearState leaves isStreaming as it is.
clearStateKeepsStreaming(s) ==
    [s EXCEPT !.inputValue = <<>>,
              !.currentScreenData = "null",
              !.isScreenCaptured = FALSE,
              !.isLoading = FALSE,
              !.isProcessing = FALSE,
              !.streamContent = <<>>,
              !.placeholder = DefaultPlaceholder]

clearState(s) ==
    [s EXCEPT !.inputValue = <<>>,
              !.currentScreenData = "null",
              !.isScreenCaptured = FALSE,
              !.isLoading = FALSE,
              !.isProcessing = FALSE,
              !.isStreaming = FALSE,
              !.streamContent = <<>>,
              !.placeholder = DefaultPlaceholder]

-----------------------------------------------------------------------------
(* The relay: LLMService *)

ConfiguredKey == "sk-key"

DefaultModel == "gpt-4o"

\* An error thrown inside the relay's try block: an HTTP-client error (with the
\* response status, 0 when there was no response, and the transport code) or
\* any other error (a TypeError on a malformed body, a stream error).
ProviderErrors ==
    [isAxios : {TRUE}, status : {0, 400, 401, 404, 429, 500},
     code : {"", "ENOTFOUND", "ECONNREFUSED", "ECONNABORTED"}]
    \cup {[isAxios |-> FALSE, status |-> 0, code |-> ""]}

\* The failures a streamed call is made to meet here: one of each kind.
StreamFailures ==
    {[isAxios |-> TRUE, status |-> 401, code |-> ""],
     [isAxios |-> FALSE, status |-> 0, code |-> ""]}

getMockResponse(userMessage, hasScreenData) ==
    <<"I understand you're asking: \"">> \o userMessage \o <<"\"", "\n\n">>
    \o (IF hasScreenData
        THEN <<"I can see your screen content and would analyze it to provide relevant insights if I had access to a real LLM API.">>
        ELSE <<"I'd be happy to help with that question if I had access to a real LLM API.">>)
    \o <<"\n\n",
         "To enable full functionality, please add your OpenAI API key to the environment variables.",
         "\n\n",
         "You can copy the env.example file to .env and add your API key there.">>

\* Mutant: the transport code is looked at before the response status.
getErrorResponseCodeFirst(error, model) ==
    IF error.isAxios /\ error.code \in {"ENOTFOUND", "ECONNREFUSED"}
    THEN <<"Network error. Please check your internet connection.">>
    ELSE IF error.isAxios /\ error.status = 401
    THEN <<"Invalid API key. Please check your OpenAI API key in the environment variables.">>
    ELSE IF error.isAxios /\ error.status = 404
    THEN <<"Model \"", model, "\" not found. Try using \"gpt-4o\" or \"gpt-4\" instead. Update your OPENAI_MODEL in the .env file.">>
    ELSE IF error.isAxios /\ error.status = 429
    THEN <<"Rate limit exceeded. Please try again in a moment.">>
    ELSE IF error.isAxios /\ error.status = 400
    THEN <<"Bad request. The image might be too large or in an unsupported format.">>
    ELSE <<"An unexpected error occurred. Please try again.">>

getErrorResponse(error, model) ==
    IF error.isAxios /\ error.status = 401
    THEN <<"Invalid API key. Please check your OpenAI API key in the environment variables.">>
    ELSE IF error.isAxios /\ error.status = 404
    THEN <<"Model \"", model, "\" not found. Try using \"gpt-4o\" or \"gpt-4\" instead. Update your OPENAI_MODEL in the .env file.">>
    ELSE IF error.isAxios /\ error.status = 429
    THEN <<"Rate limit exceeded. Please try again in a moment.">>
    ELSE IF error.isAxios /\ error.status = 400
    THEN <<"Bad request. The image might be too large or in an unsupported format.">>
    ELSE IF error.isAxios /\ error.code \in {"ENOTFOUND", "ECONNREFUSED"}
    THEN <<"Network error. Please check your internet connection.">>
    ELSE <<"An unexpected error occurred. Please try again.">>

\* process.env['OPENAI_MODEL'] || 'gpt-4o'
Models == {DefaultModel, "gpt-4"}

\* Every error getErrorResponse can be handed: the provider's, and errors
\* that are no HTTP-client errors but carry a transport code all the same
\* (a socket error raised while the response stream is read).
Errors ==
    ProviderErrors
    \cup [isAxios : {FALSE}, status : {0},
          code : {"ENOTFOUND", "ECONNREFUSED", "ECONNABORTED"}]

\* new LLMService(): what the constructor does with the environment's key.
LLMServiceConstructor(key) == IF key = "" THEN "throw" ELSE "ok"

\* new OverlayApp(): the service is constructed first, outside any try block.
OverlayAppConstructor(key) ==
    IF LLMServiceConstructor(key) = "throw" THEN "crashed" ELSE "ready"

\* What the streaming and the non-streaming call can meet: a response body
\* (choices is the list of the completions' contents, <<>> standing for a
\* missing or empty content; a body that is not of that shape is not
\* wellFormed) or an error.
ResponseBodies ==
    [wellFormed : {TRUE}, choices : {<<>>, << <<>> >>, << <<"a">> >>, << <<"a">>, <<" ">> >>}]
    \cup {[wellFormed |-> FALSE, choices |-> <<>>]}

NoError == [isAxios |-> FALSE, status |-> 0, code |-> ""]

CallOutcomes ==
    [kind : {"response"}, body : ResponseBodies, error : {NoError}]
    \cup [kind : {"error"}, body : {[wellFormed |-> FALSE, choices |-> <<>>]},
          error : ProviderErrors]

NoResponseMessage == <<"Sorry, I could not generate a response.">>

Return(value) == [kind |-> "return", value |-> value, error |-> NoError]

Throw(error) == [kind |-> "throw", value |-> <<>>, error |-> error]

\* callOpenAI: one POST; axios rejects on an error and resolves with the body.
callOpenAI(outcome) ==
    IF outcome.kind = "error" THEN Throw(outcome.error) ELSE Return(outcome.body)

\* Mutant: the content of the first completion is returned as it is, an
\* empty text for a missing one.
sendMessageTryAsIs(outcome) ==
    LET response == callOpenAI(outcome)
    IN  IF response.kind = "throw" THEN response
        ELSE IF ~response.value.wellFormed THEN Throw(NoError)
        ELSE IF response.value.choices = <<>> THEN Return(<<>>)
        ELSE Return(response.value.choices[1])

\* The POSTs sendMessage issues: none without a key, else the one of
\* callOpenAI, which is not repeated whatever the outcome.
sendMessageRequests(key, outcome) == IF key = "" THEN 0 ELSE 1

\* The try block of sendMessage.  Reading choices[0] of a body without a
\* choices list throws a TypeError, which is no HTTP-client error.
sendMessageTry(outcome) ==
    LET response == callOpenAI(outcome)
    IN  IF response.kind = "throw" THEN response
        ELSE IF ~response.value.wellFormed THEN Throw(NoError)
        ELSE IF response.value.choices = <<>> \/ response.value.choices[1] = <<>>
        THEN Return(NoResponseMessage)
        ELSE Return(response.value.choices[1])

\* Mutant: sendMessage without its catch clause.
sendMessageUncaught(key, userMessage, hasScreenData, outcome, model) ==
    IF key = ""
    THEN Return(getMockResponse(userMessage, hasScreenData))
    ELSE sendMessageTry(outcome)

sendMessage(key, userMessage, hasScreenData, outcome, model) ==
    IF key = ""
    THEN Return(getMockResponse(userMessage, hasScreenData))
    ELSE LET tried == sendMessageTry(outcome)
         IN  IF tried.kind = "throw"
             THEN Return(getErrorResponse(tried.error, model))
             ELSE tried

\* sendMessageStream up to its first suspension: without a key it yields the
\* canned text and issues no call; with one it opens the streamed call.
sendMessageStreamBegin(key, userMessage, hasScreenData) ==
    IF key = ""
    THEN [kind |-> "yield", value |-> getMockResponse(userMessage, hasScreenData)]
    ELSE [kind |-> "call", value |-> <<>>]

\* Mutant: sendMessageStream without its catch clause.
sendMessageStreamUncaught(error, model) ==
    [kind |-> "throw", value |-> <<>>]

\* Mutant: the catch clause yields the same text for every error.
sendMessageStreamCatchGeneric(error, model) ==
    [kind |-> "yield", value |-> getErrorResponse(NoError, model)]

\* sendMessageStream's catch clause around the streamed call.
sendMessageStreamCatch(error, model) ==
    [kind |-> "yield", value |-> getErrorResponse(error, model)]

-----------------------------------------------------------------------------
(* The relay's stream parser: callOpenAIStream *)

\* The response arrives as bytes.  A byte token is one byte ("\n", "a", and
\* "C3", "A9", the two bytes of the character "e'") or a run of ASCII bytes
\* taken whole: "data: ", "[DONE]", "{" for the frame's text up to the opening
\* quote of delta.content, "}" for its text from the closing quote on, "{}"
\* for a frame whose delta has no content, and ":" for a comment line.
ContentBytes == {"a", "C3", "A9"}

\* What decoding puts in the place of a byte sequence that is no character.
ReplacementChar == "U+FFFD"

ContentChars == {"a", "e'", ReplacementChar}

\* chunk.toString(): the bytes of one network chunk decoded as UTF-8, on
\* their own.  A lead byte without its continuation byte in the chunk and a
\* continuation byte without its lead byte each decode to U+FFFD.
RECURSIVE ChunkToString(_)
ChunkToString(bytes) ==
    IF bytes = <<>> THEN <<>>
    ELSE IF Head(bytes) = "C3"
    THEN IF Len(bytes) >= 2 /\ bytes[2] = "A9"
         THEN <<"e'">> \o ChunkToString(SubSeq(bytes, 3, Len(bytes)))
         ELSE <<ReplacementChar>> \o ChunkToString(Tail(bytes))
    ELSE IF Head(bytes) = "A9"
    THEN <<ReplacementChar>> \o ChunkToString(Tail(bytes))
    ELSE <<Head(bytes)>> \o ChunkToString(Tail(bytes))

\* buffer.split('\n'): at least one piece, the last one what follows the
\* last newline.
RECURSIVE SplitLines(_)
SplitLines(text) ==
    IF \A i \in 1..Len(text) : text[i] # "\n"
    THEN <<text>>
    ELSE LET i == CHOOSE k \in 1..Len(text) :
                    /\ text[k] = "\n"
                    /\ \A j \in 1..(k - 1) : text[j] # "\n"
         IN  <<SubSeq(text, 1, i - 1)>> \o SplitLines(SubSeq(text, i + 1, Len(text)))

\* JSON.parse(data) and parsed.choices[0]?.delta?.content: threw says that
\* one of the two threw, content is <<>> when it is missing or empty.
ParseFrame(data) ==
    IF data = <<"{}">>
    THEN [threw |-> FALSE, content |-> <<>>]
    ELSE IF /\ Len(data) >= 2
            /\ Head(data) = "{"
            /\ data[Len(data)] = "}"
            /\ \A i \in 2..(Len(data) - 1) : data[i] \in ContentChars
    THEN [threw |-> FALSE, content |-> SubSeq(data, 2, Len(data) - 1)]
    ELSE [threw |-> TRUE, content |-> <<>>]

\* The loop over the complete lines of one network chunk, from line i on.
RECURSIVE ReadLines(_, _, _)
ReadLines(lines, i, yields) ==
    IF i > Len(lines) THEN [yields |-> yields, returned |-> FALSE]
    ELSE LET line == lines[i]
         IN  IF line # <<>> /\ Head(line) = "data: "
             THEN LET data == Tail(line)
                      frame == ParseFrame(data)
                  IN  IF data = <<"[DONE]">>
                      THEN [yields |-> yields, returned |-> TRUE]
                      ELSE IF ~frame.threw /\ frame.content # <<>>
                      THEN ReadLines(lines, i + 1, Append(yields, frame.content))
                      ELSE ReadLines(lines, i + 1, yields)
             ELSE ReadLines(lines, i + 1, yields)

\* The loop over the network chunks, with the text left over in buffer.
RECURSIVE ReadChunks(_, _, _)
ReadChunks(chunks, buffer, yields) ==
    IF chunks = <<>> THEN yields
    ELSE LET pieces == SplitLines(buffer \o ChunkToString(Head(chunks)))
             lines == SubSeq(pieces, 1, Len(pieces) - 1)
             read == ReadLines(lines, 1, yields)
         IN  IF read.returned THEN read.yields
             ELSE ReadChunks(Tail(chunks), pieces[Len(pieces)], read.yields)

\* callOpenAIStream once the response is there: everything it yields.
callOpenAIStream(chunks) == ReadChunks(chunks, <<>>, <<>>)

\* Everything sendMessageStream yields when its call fails at connect time.
sendMessageStreamFailing(key, userMessage, hasScreenData, error, model) ==
    LET begun == sendMessageStreamBegin(key, userMessage, hasScreenData)
        out == IF begun.kind = "call" THEN sendMessageStreamCatch(error, model)
               ELSE begun
    IN  IF out.kind = "yield" THEN <<out.value>> ELSE <<>>

\* The call of sendMessage or sendMessageStream meeting error.
FailedCall(error) ==
    [kind |-> "error", body |-> [wellFormed |-> FALSE, choices |-> <<>>],
     error |-> error]

-----------------------------------------------------------------------------
(* The main process: OverlayApp *)

\* A message from the main process to the renderer.  req names the request a
\* stream message belongs to; the program's messages carry no such field and
\* no handler reads it.
Event(type, req, chunk, error) ==
    [type |-> type, req |-> req, chunk |-> chunk, error |-> error]

\* The data URL of the thumbnail that the n-th run of captureScreen takes.
Screenshot(n) == "data:image/png;" \o ToString(n)

\* What the n-th run of captureScreen returns: null, or the data URL.
captureScreen(n) == {"null", Screenshot(n)}

\* The screen data a caller may pass.
ScreenDatas == UNION {captureScreen(n) : n \in 1..MaxCaptures}

\* A message to the renderer that carries the result of a capture.
ScreenEvent(type, screenData) ==
    [type |-> type, req |-> 0, chunk |-> <<>>, error |-> "", screenData |-> screenData]

NoReply == [state |-> "none", value |-> <<>>, raised |-> FALSE]

NoHandler == [pos |-> "none", message |-> <<>>, screenData |-> "null"]

\* No function of the relay has been called directly.
NoCall == [fn |-> "none"]

\* Nothing of the request has come from the provider yet.
NotRelayed == [deltas |-> <<>>, completed |-> FALSE]

\* webContents.send / event.sender.send: the message joins the channel.
CanSend(events) == Len(ipc) + Len(events) <= MaxQueue

Init ==
    /\ store = InitialStore
    /\ ipc = <<>>
    /\ app = "starting"
    /\ apiKey \in {"", ConfiguredKey}
    /\ isOverlayVisible = FALSE
    /\ handler = [r \in Requests |-> NoHandler]
    /\ yielded = 0
    /\ nextReq = 0
    /\ reply = NoReply
    /\ fed = <<>>
    /\ session = "none"
    /\ bufOwner = {}
    /\ call = NoCall
    /\ relayed = [r \in Requests |-> NotRelayed]
    /\ captures = 0
    /\ listeners = 1
    /\ overlayWindow = "hidden"

\* new OverlayApp() at start-up.
Construct ==
    /\ app = "starting"
    /\ app' = OverlayAppConstructor(apiKey)
    /\ UNCHANGED <<store, ipc, apiKey, isOverlayVisible, handler, yielded,
                   nextReq, reply, fed, session, bufOwner, call, relayed, captures, listeners, overlayWindow>>

showOverlay ==
    /\ CanSend(<<Event("overlay-shown", 0, <<>>, "")>>)
    /\ overlayWindow' = "shown"
    /\ isOverlayVisible' = TRUE
    /\ ipc' = Append(ipc, Event("overlay-shown", 0, <<>>, ""))

\* Mutant: hideOverlay clears the flag and leaves the window on the screen.
hideOverlayFlagOnly ==
    /\ CanSend(<<Event("overlay-hidden", 0, <<>>, "")>>)
    /\ overlayWindow' = overlayWindow
    /\ isOverlayVisible' = FALSE
    /\ ipc' = Append(ipc, Event("overlay-hidden", 0, <<>>, ""))

hideOverlay ==
    /\ CanSend(<<Event("overlay-hidden", 0, <<>>, "")>>)
    /\ overlayWindow' = "hidden"
    /\ isOverlayVisible' = FALSE
    /\ ipc' = Append(ipc, Event("overlay-hidden", 0, <<>>, ""))

\* The CommandOrControl+\ global shortcut.
ToggleOverlay ==
    /\ app = "ready"
    /\ IF isOverlayVisible THEN hideOverlay ELSE showOverlay
    /\ UNCHANGED <<store, app, apiKey, handler, yielded, nextReq, reply, fed, session,
                   bufOwner, call, relayed, captures, listeners>>

\* The Escape global shortcut and the window's blur event.
EscapeShortcut ==
    /\ app = "ready"
    /\ IF isOverlayVisible
       THEN hideOverlay
       ELSE UNCHANGED <<isOverlayVisible, overlayWindow, ipc>>
    /\ UNCHANGED <<store, app, apiKey, handler, yielded, nextReq, reply, fed, session,
                   bufOwner, call, relayed, captures, listeners>>

\* Mutant: the shortcut captures the screen whether the overlay shows or not.
CaptureShortcutAlways ==
    /\ app = "ready"
    /\ captures < MaxCaptures
    /\ \E screenData \in captureScreen(captures + 1) :
         LET event == ScreenEvent("initiate-chat-with-screen", screenData)
         IN  /\ CanSend(<<event>>)
             /\ ipc' = Append(ipc, event)
    /\ captures' = captures + 1
    /\ UNCHANGED <<store, app, apiKey, isOverlayVisible, handler, yielded, nextReq,
                   reply, fed, session, bufOwner, call, relayed, listeners, overlayWindow>>

\* The CommandOrControl+Return global shortcut: with the overlay visible,
\* initiateChatWithScreenCapture runs captureScreen and sends its result.
CaptureShortcut ==
    /\ app = "ready"
    /\ IF isOverlayVisible
       THEN /\ captures < MaxCaptures
            /\ \E screenData \in captureScreen(captures + 1) :
                 LET event == ScreenEvent("initiate-chat-with-screen", screenData)
                 IN  /\ CanSend(<<event>>)
                     /\ ipc' = Append(ipc, event)
            /\ captures' = captures + 1
       ELSE UNCHANGED <<ipc, captures, listeners, overlayWindow>>
    /\ UNCHANGED <<store, app, apiKey, isOverlayVisible, handler, yielded, nextReq,
                   reply, fed, session, bufOwner, call, relayed, listeners, overlayWindow>>

\* Mutant: the catch clause swallows the error and reports nothing.
StreamHandlerCatchSilent(r, error, sendOk) ==
    <<Event("invoke-resolved", r, <<>>, "")>>

\* The catch clause of the 'send-chat-message-stream' handler: it reports the
\* error to the renderer; when that send throws too, the handler rejects.
StreamHandlerCatch(r, error, sendOk) ==
    IF sendOk
    THEN <<Event("chat-message-stream-error", r, <<>>, error),
           Event("invoke-resolved", r, <<>>, "")>>
    ELSE <<Event("invoke-rejected", r, <<>>, error)>>

\* One pass of the handler's for-await body: the chunk is sent, and a send
\* that throws leaves the loop through the catch clause.
StreamHandlerChunk(r, chunk, sendOk, catchOk) ==
    IF sendOk
    THEN <<Event("chat-message-stream-chunk", r, chunk, "")>>
    ELSE StreamHandlerCatch(r, "send", catchOk)

\* Mutant: the handler returns after the loop without sending the end message.
StreamHandlerEndSilent(r, sendOk, catchOk) ==
    <<Event("invoke-resolved", r, <<>>, "")>>

\* The handler after the loop: the generator has returned.
StreamHandlerEnd(r, sendOk, catchOk) ==
    IF sendOk
    THEN <<Event("chat-message-stream-end", r, <<>>, ""),
           Event("invoke-resolved", r, <<>>, "")>>
    ELSE StreamHandlerCatch(r, "send", catchOk)

\* The handler starts: sendMessageStream runs to its first suspension.
StreamBegin(r) ==
    /\ app = "ready"
    /\ handler[r].pos = "invoked"
    /\ LET out == sendMessageStreamBegin(apiKey, handler[r].message,
                                         handler[r].screenData # "null")
       IN  IF out.kind = "yield"
           THEN \E sendOk, catchOk \in BOOLEAN :
                  LET events == StreamHandlerChunk(r, out.value, sendOk, catchOk)
                  IN  /\ CanSend(events)
                      /\ ipc' = ipc \o events
                      /\ handler' = [handler EXCEPT ![r].pos =
                                       IF sendOk THEN "draining" ELSE "done"]
           ELSE /\ handler' = [handler EXCEPT ![r].pos = "streaming"]
                /\ UNCHANGED ipc
    /\ UNCHANGED <<store, app, apiKey, isOverlayVisible, yielded, nextReq, reply, fed,
                   session, bufOwner, call, relayed, captures, listeners, overlayWindow>>

\* The provider delivers a frame with a non-empty content delta.
StreamChunk(r, chunk) ==
    /\ app = "ready"
    /\ handler[r].pos = "streaming"
    /\ yielded < MaxChunks
    /\ \E sendOk, catchOk \in BOOLEAN :
         LET events == StreamHandlerChunk(r, chunk, sendOk, catchOk)
         IN  /\ CanSend(events)
             /\ ipc' = ipc \o events
             /\ handler' = [handler EXCEPT ![r].pos =
                              IF sendOk THEN "streaming" ELSE "done"]
    /\ yielded' = yielded + 1
    /\ relayed' = [relayed EXCEPT ![r].deltas = @ \o chunk]
    /\ UNCHANGED <<store, app, apiKey, isOverlayVisible, nextReq, reply, fed, session,
                   bufOwner, call, captures, listeners, overlayWindow>>

\* Mutant: the fallback is yielded from inside the read loop, which goes on.
StreamFailResumes(r, error) ==
    /\ app = "ready"
    /\ handler[r].pos = "streaming"
    /\ LET out == sendMessageStreamCatch(error, DefaultModel)
       IN  \E sendOk, catchOk \in BOOLEAN :
             LET events == StreamHandlerChunk(r, out.value, sendOk, catchOk)
             IN  /\ CanSend(events)
                 /\ ipc' = ipc \o events
                 /\ handler' = [handler EXCEPT ![r].pos =
                                  IF sendOk THEN "streaming" ELSE "done"]
    /\ UNCHANGED <<store, app, apiKey, isOverlayVisible, yielded, nextReq, reply, fed,
                   session, bufOwner, call, relayed, captures, listeners, overlayWindow>>

\* The streamed call fails, at connect time or after some chunks.
StreamFail(r, error) ==
    /\ app = "ready"
    /\ handler[r].pos = "streaming"
    /\ LET out == sendMessageStreamCatch(error, DefaultModel)
       IN  \E sendOk, catchOk \in BOOLEAN :
             LET events ==
                   IF out.kind = "yield"
                   THEN StreamHandlerChunk(r, out.value, sendOk, catchOk)
                   ELSE StreamHandlerCatch(r, "relay", catchOk)
             IN  /\ CanSend(events)
                 /\ ipc' = ipc \o events
                 /\ handler' = [handler EXCEPT ![r].pos =
                                  IF out.kind = "yield" /\ sendOk
                                  THEN "draining" ELSE "done"]
    /\ UNCHANGED <<store, app, apiKey, isOverlayVisible, yielded, nextReq, reply, fed,
                   session, bufOwner, call, relayed, captures, listeners, overlayWindow>>

\* The generator returns: the provider sent the sentinel, the connection
\* closed, or the canned or fallback text was the last thing yielded.
StreamEnd(r) ==
    /\ app = "ready"
    /\ handler[r].pos \in {"streaming", "draining"}
    /\ \E sendOk, catchOk \in BOOLEAN :
         LET events == StreamHandlerEnd(r, sendOk, catchOk)
         IN  /\ CanSend(events)
             /\ ipc' = ipc \o events
    /\ handler' = [handler EXCEPT ![r].pos = "done"]
    /\ relayed' = [relayed EXCEPT ![r].completed = (handler[r].pos = "streaming")]
    /\ UNCHANGED <<store, app, apiKey, isOverlayVisible, yielded, nextReq, reply, fed,
                   session, bufOwner, call, captures, listeners, overlayWindow>>

-----------------------------------------------------------------------------
(* The renderer: App *)

\* The input field's onChange.  A hidden window gets no keyboard input and
\* the field is disabled while isProcessing.
SetInputValue(value) ==
    /\ app = "ready"
    /\ isOverlayVisible
    /\ ~store.isProcessing
    /\ store' = setInputValue(store, value)
    /\ UNCHANGED <<ipc, app, apiKey, isOverlayVisible, handler, yielded,
                   nextReq, reply, fed, session, bufOwner, call, relayed, captures, listeners, overlayWindow>>

\* Escape in the input field: handleKeyDown invokes 'hide-overlay', whose
\* handler hides the overlay whatever isOverlayVisible says.
HideOverlayKey ==
    /\ app = "ready"
    /\ isOverlayVisible
    /\ ~store.isProcessing
    /\ hideOverlay
    /\ UNCHANGED <<store, app, apiKey, handler, yielded, nextReq, reply, fed, session,
                   bufOwner, call, relayed, captures, listeners>>

\* handleScreenCapture(screenData)
handleScreenCapture(s, screenData) ==
    LET shown == setScreenCaptured(setScreenData(s, screenData), screenData # "null")
    IN  IF screenData # "null" THEN setPlaceholder(shown, ScreenPlaceholder)
        ELSE shown

\* captureAndSendMessage up to its await: Cmd/Ctrl+Enter in the input field.
\* The 'capture-screen' handler runs captureScreen and returns its result.
CaptureAndSendMessage ==
    /\ app = "ready"
    /\ isOverlayVisible
    /\ ~store.isProcessing
    /\ captures < MaxCaptures
    /\ store' = setScreenCaptured(store, TRUE)
    /\ \E screenData \in captureScreen(captures + 1) :
         LET event == ScreenEvent("capture-resolved", screenData)
         IN  /\ CanSend(<<event>>)
             /\ ipc' = Append(ipc, event)
    /\ captures' = captures + 1
    /\ UNCHANGED <<app, apiKey, isOverlayVisible, handler, yielded, nextReq, reply,
                   fed, session, bufOwner, call, relayed, listeners, overlayWindow>>

\* sendMessage up to its await: Enter in the input field.
SendMessage ==
    /\ app = "ready"
    /\ isOverlayVisible
    /\ IF store.isProcessing \/ Trim(store.inputValue) = <<>>
       THEN UNCHANGED vars
       ELSE LET message == Trim(store.inputValue)
                r == nextReq + 1
                s1 == startStreaming(setLoading(setProcessing(store, TRUE), TRUE))
                s2 == setPlaceholder(
                        setInputValue(addMessage(s1, message, "user"), <<>>),
                        DefaultPlaceholder)
            IN  /\ nextReq < MaxRequests
                /\ store' = s2
                /\ handler' = [handler EXCEPT ![r] =
                                 [pos |-> "invoked", message |-> message,
                                  screenData |-> store.currentScreenData]]
                /\ nextReq' = r
                /\ fed' = <<>>
                /\ session' = IF store.isStreaming THEN "broken" ELSE "open"
                /\ bufOwner' = {}
                /\ UNCHANGED <<ipc, app, apiKey, isOverlayVisible, yielded, reply,
                              call, relayed, captures, listeners, overlayWindow>>

Receives(type) == ipc # <<>> /\ Head(ipc).type = type

\* The history variables.  A session is "open" from a startStreaming made
\* while Idle for as long as chunks are only appended, "committed" once
\* finishStreaming has ended an open session on the end message, and "broken"
\* after anything else has ended or cleared it.
SessionEnds(committed) ==
    /\ session' = IF session = "none" THEN "none"
                  ELSE IF committed /\ session = "open" THEN "committed"
                  ELSE "broken"
    /\ fed' = IF committed /\ session = "open" THEN fed ELSE <<>>
    /\ bufOwner' = {}

\* The App's effect that sets up the Electron listeners: every run registers
\* one more callback per channel through the preload script (ipcRenderer.on),
\* and its cleanup function removes none.
RegisterListeners ==
    /\ listeners < MaxEffectRuns
    /\ listeners' = listeners + 1
    /\ UNCHANGED <<store, ipc, app, apiKey, isOverlayVisible, handler, yielded,
                   nextReq, reply, fed, session, bufOwner, call, relayed, captures, overlayWindow>>

\* The callback that one run of the effect has registered for an event.
Callback(s, event) ==
    CASE event.type = "overlay-hidden" -> clearState(s)
      [] event.type = "initiate-chat-with-screen" ->
            handleScreenCapture(s, event.screenData)
      [] event.type = "chat-message-stream-chunk" ->
            appendStreamContent(s, event.chunk)
      [] event.type = "chat-message-stream-end" -> finishStreaming(s)
      [] event.type = "chat-message-stream-error" ->
            finishStreaming(addMessage(s, StreamErrorMessage, "assistant"))
      [] OTHER -> s

\* ipcRenderer emits the event to the n callbacks registered for its channel,
\* in the order of their registration.
RECURSIVE Emit(_, _, _)
Emit(n, s, event) ==
    IF n = 0 THEN s ELSE Emit(n - 1, Callback(s, event), event)

RECURSIVE Repeated(_, _)
Repeated(chunk, n) ==
    IF n = 0 THEN <<>> ELSE chunk \o Repeated(chunk, n - 1)

handleOverlayShown ==
    /\ Receives("overlay-shown")
    /\ ipc' = Tail(ipc)
    /\ UNCHANGED <<store, app, apiKey, isOverlayVisible, handler, yielded,
                   nextReq, reply, fed, session, bufOwner, call, relayed, captures, listeners, overlayWindow>>

handleOverlayHidden ==
    /\ Receives("overlay-hidden")
    /\ ipc' = Tail(ipc)
    /\ store' = Emit(listeners, store, Head(ipc))
    /\ SessionEnds(FALSE)
    /\ UNCHANGED <<app, apiKey, isOverlayVisible, handler, yielded, nextReq, reply,
                   call, relayed, captures, listeners, overlayWindow>>

handleStreamChunk ==
    /\ Receives("chat-message-stream-chunk")
    /\ ipc' = Tail(ipc)
    /\ store' = Emit(listeners, store, Head(ipc))
    /\ fed' = IF session = "open" THEN fed \o Repeated(Head(ipc).chunk, listeners)
              ELSE fed
    /\ session' = session
    /\ bufOwner' = bufOwner \cup {Head(ipc).req}
    /\ UNCHANGED <<app, apiKey, isOverlayVisible, handler, yielded, nextReq, reply,
                   call, relayed, captures, listeners, overlayWindow>>

handleStreamEnd ==
    /\ Receives("chat-message-stream-end")
    /\ ipc' = Tail(ipc)
    /\ store' = Emit(listeners, store, Head(ipc))
    /\ SessionEnds(TRUE)
    /\ UNCHANGED <<app, apiKey, isOverlayVisible, handler, yielded, nextReq, reply,
                   call, relayed, captures, listeners, overlayWindow>>

handleStreamError ==
    /\ Receives("chat-message-stream-error")
    /\ ipc' = Tail(ipc)
    /\ store' = Emit(listeners, store, Head(ipc))
    /\ SessionEnds(FALSE)
    /\ UNCHANGED <<app, apiKey, isOverlayVisible, handler, yielded, nextReq, reply,
                   call, relayed, captures, listeners, overlayWindow>>

\* sendMessage after its await, the invoke having resolved.
SendMessageResolved ==
    /\ Receives("invoke-resolved")
    /\ ipc' = Tail(ipc)
    /\ store' = setScreenCaptured(setScreenData(store, "null"), FALSE)
    /\ UNCHANGED <<app, apiKey, isOverlayVisible, handler, yielded, nextReq, reply,
                   fed, session, bufOwner, call, relayed, captures, listeners, overlayWindow>>

\* sendMessage's catch clause, the invoke having rejected.
SendMessageRejected ==
    /\ Receives("invoke-rejected")
    /\ ipc' = Tail(ipc)
    /\ store' = finishStreaming(addMessage(store, StreamErrorMessage, "assistant"))
    /\ SessionEnds(FALSE)
    /\ UNCHANGED <<app, apiKey, isOverlayVisible, handler, yielded, nextReq, reply,
                   call, relayed, captures, listeners, overlayWindow>>

\* captureAndSendMessage after its await, the invoke having resolved.
CaptureResolved ==
    /\ Receives("capture-resolved")
    /\ ipc' = Tail(ipc)
    /\ store' = LET screenData == Head(ipc).screenData
                    stored == setScreenData(store, screenData)
                IN  IF screenData # "null"
                    THEN setPlaceholder(stored, ScreenPlaceholder)
                    ELSE setScreenCaptured(
                           addMessage(stored, CaptureFailedMessage, "assistant"),
                           FALSE)
    /\ UNCHANGED <<app, apiKey, isOverlayVisible, handler, yielded, nextReq, reply,
                   fed, session, bufOwner, call, relayed, captures, listeners, overlayWindow>>

handleInitiateChatWithScreen ==
    /\ Receives("initiate-chat-with-screen")
    /\ ipc' = Tail(ipc)
    /\ store' = Emit(listeners, store, Head(ipc))
    /\ UNCHANGED <<app, apiKey, isOverlayVisible, handler, yielded, nextReq, reply,
                   fed, session, bufOwner, call, relayed, captures, listeners, overlayWindow>>

-----------------------------------------------------------------------------
(* The IPC handlers called directly, as the preload script exposes them *)

\* OverlayApp.sendChatMessage behind the 'send-chat-message' handler; raised
\* records whether LLMService.sendMessage threw into its try block.
sendChatMessage(message, screenData, outcome) ==
    LET result == sendMessage(apiKey, message, screenData # "null", outcome,
                              DefaultModel)
    IN  IF result.kind = "throw"
        THEN [state |-> "resolved", value |-> StreamErrorMessage, raised |-> TRUE]
        ELSE [state |-> "resolved", value |-> result.value, raised |-> FALSE]

\* The handlers still running a streaming request.
InFlight == {r \in Requests : handler[r].pos \in {"invoked", "streaming", "draining"}}

\* The caller makes one call at a time: the last one has ended and its
\* messages have been taken.
CallerIdle == InFlight = {} /\ ipc = <<>>

\* electronAPI.sendChatMessage(message, screenData), the provider answering
\* the call with outcome.
InvokeSendChatMessage(message, screenData, outcome) ==
    /\ app = "ready"
    /\ CallerIdle
    /\ reply' = sendChatMessage(message, screenData, outcome)
    /\ UNCHANGED <<store, ipc, app, apiKey, isOverlayVisible, handler, yielded,
                   nextReq, fed, session, bufOwner, call, relayed, captures, listeners, overlayWindow>>

\* electronAPI.sendChatMessageStream(message, screenData).
InvokeSendChatMessageStream(message, screenData) ==
    /\ app = "ready"
    /\ CallerIdle
    /\ nextReq < MaxRequests
    /\ nextReq' = nextReq + 1
    /\ handler' = [handler EXCEPT ![nextReq + 1] =
                     [pos |-> "invoked", message |-> message,
                      screenData |-> screenData]]
    /\ UNCHANGED <<store, ipc, app, apiKey, isOverlayVisible, yielded, reply,
                   fed, session, bufOwner, call, relayed, captures, listeners, overlayWindow>>

\* electronAPI.hideOverlay(): the 'hide-overlay' handler calls hideOverlay
\* whatever isOverlayVisible says.
InvokeHideOverlay ==
    /\ app = "ready"
    /\ hideOverlay
    /\ UNCHANGED <<store, app, apiKey, handler, yielded, nextReq, reply, fed, session,
                   bufOwner, call, relayed, captures, listeners>>

\* The caller takes the next message off the channel.
Receive ==
    /\ ipc # <<>>
    /\ ipc' = Tail(ipc)
    /\ UNCHANGED <<store, app, apiKey, isOverlayVisible, handler, yielded,
                   nextReq, reply, fed, session, bufOwner, call, relayed, captures, listeners, overlayWindow>>

-----------------------------------------------------------------------------
(* The relay's functions called directly *)

\* getErrorResponse(error) on a service configured with model.
CallGetErrorResponse(error, model) ==
    /\ call = NoCall
    /\ call' = [fn |-> "getErrorResponse", error |-> error, model |-> model,
                result |-> getErrorResponse(error, model)]
    /\ UNCHANGED <<store, ipc, app, apiKey, isOverlayVisible, handler, yielded,
                   nextReq, reply, fed, session, bufOwner, relayed, captures, listeners, overlayWindow>>

\* The lines a provider can send, without their newline: a frame with the
\* delta "a", one with the delta "e'", one with an empty delta content, one
\* with no delta content, a frame cut short, a comment, a blank line and the
\* end-of-stream sentinel.
DoneLine == <<"data: ", "[DONE]">>

StreamLines ==
    { <<"data: ", "{", "a", "}">>,
      <<"data: ", "{", "C3", "A9", "}">>,
      <<"data: ", "{", "}">>,
      <<"data: ", "{}">>,
      <<"data: ", "{", "a">>,
      <<":">>,
      <<>>,
      DoneLine }

LineSeqs == UNION {[1..n -> StreamLines] : n \in 1..MaxLines}

\* The bytes of the lines, each line ended by its newline.
RECURSIVE LineBytes(_)
LineBytes(lines) ==
    IF lines = <<>> THEN <<>>
    ELSE Head(lines) \o <<"\n">> \o LineBytes(Tail(lines))

\* The network delivers the bytes whole (cut = 0) or in two chunks, the
\* first one of cut bytes.
NetworkChunks(bytes, cut) ==
    IF cut = 0 THEN <<bytes>>
    ELSE <<SubSeq(bytes, 1, cut), SubSeq(bytes, cut + 1, Len(bytes))>>

\* callOpenAIStream reading a response of these lines.
CallOpenAIStream(lines, cut) ==
    /\ call = NoCall
    /\ call' = [fn |-> "callOpenAIStream", lines |-> lines, cut |-> cut,
                yields |-> callOpenAIStream(NetworkChunks(LineBytes(lines), cut))]
    /\ UNCHANGED <<store, ipc, app, apiKey, isOverlayVisible, handler, yielded,
                   nextReq, reply, fed, session, bufOwner, relayed, captures, listeners, overlayWindow>>

\* The bytes of a response whose connection closes after these lines, the
\* last line ended by its newline or not.
ResponseBytes(lines, terminated) ==
    LET bytes == LineBytes(lines)
    IN  IF terminated THEN bytes ELSE SubSeq(bytes, 1, Len(bytes) - 1)

\* sendMessageStream whose call connects and reads these network chunks until
\* the connection closes: what it yields and how it ends.
sendMessageStreamReading(key, userMessage, hasScreenData, chunks) ==
    LET begun == sendMessageStreamBegin(key, userMessage, hasScreenData)
    IN  [yields |-> IF begun.kind = "call" THEN callOpenAIStream(chunks)
                    ELSE <<begun.value>>,
         ended |-> "return"]

\* sendMessageStream on a configured service, reading a response of these
\* lines.
CallSendMessageStream(lines, terminated, cut) ==
    /\ call = NoCall
    /\ call' = [fn |-> "sendMessageStream", lines |-> lines,
                terminated |-> terminated, cut |-> cut,
                result |-> sendMessageStreamReading(
                             ConfiguredKey, <<"q">>, FALSE,
                             NetworkChunks(ResponseBytes(lines, terminated), cut))]
    /\ UNCHANGED <<store, ipc, app, apiKey, isOverlayVisible, handler, yielded,
                   nextReq, reply, fed, session, bufOwner, relayed, captures, listeners, overlayWindow>>

\* sendMessage on a service configured with key and model, its call, if it
\* makes one, meeting outcome.
CallSendMessage(key, userMessage, hasScreenData, outcome, model) ==
    /\ call = NoCall
    /\ call' = [fn |-> "sendMessage", key |-> key, outcome |-> outcome,
                requests |-> sendMessageRequests(key, outcome),
                returned |-> sendMessage(key, userMessage, hasScreenData,
                                         outcome, model)]
    /\ UNCHANGED <<store, ipc, app, apiKey, isOverlayVisible, handler, yielded,
                   nextReq, reply, fed, session, bufOwner, relayed, captures, listeners, overlayWindow>>

\* What the user's message is, once trimmed.
UserMessages == {Trim(v) : v \in InputValues} \ {<<>>}

\* sendMessage and sendMessageStream on services configured alike, given the
\* same arguments, their calls meeting the same error.
CallBothFailing(key, userMessage, hasScreenData, error, model) ==
    /\ call = NoCall
    /\ call' = [fn |-> "failing", key |-> key, userMessage |-> userMessage,
                hasScreenData |-> hasScreenData, error |-> error, model |-> model,
                returned |-> sendMessage(key, userMessage, hasScreenData,
                                         FailedCall(error), model),
                yields |-> sendMessageStreamFailing(key, userMessage,
                                                    hasScreenData, error, model)]
    /\ UNCHANGED <<store, ipc, app, apiKey, isOverlayVisible, handler, yielded,
                   nextReq, reply, fed, session, bufOwner, relayed, captures, listeners, overlayWindow>>

-----------------------------------------------------------------------------
(* Specifications *)

\* The relay and the provider make progress.
MainProgress ==
    \E r \in Requests :
        \/ StreamBegin(r)
        \/ \E chunk \in Chunks : StreamChunk(r, chunk)
        \/ \E error \in StreamFailures : StreamFail(r, error)
        \/ StreamEnd(r)

\* The renderer's event loop handles the next message.
Deliver ==
    \/ handleOverlayShown
    \/ handleOverlayHidden
    \/ handleStreamChunk
    \/ handleStreamEnd
    \/ handleStreamError
    \/ SendMessageResolved
    \/ SendMessageRejected

Next ==
    \/ Construct
    \/ ToggleOverlay
    \/ EscapeShortcut
    \/ HideOverlayKey
    \/ \E value \in InputValues : SetInputValue(value)
    \/ SendMessage
    \/ MainProgress
    \/ Deliver

Spec == Init /\ [][Next]_vars

FairSpec == Spec /\ WF_vars(MainProgress) /\ WF_vars(Deliver)

\* The chat together with the screen captures, in front of a provider whose
\* calls do not fail and whose deltas are all the same.
CaptureNext ==
    \/ Construct
    \/ ToggleOverlay
    \/ EscapeShortcut
    \/ HideOverlayKey
    \/ CaptureShortcut
    \/ \E value \in InputValues : SetInputValue(value)
    \/ SendMessage
    \/ CaptureAndSendMessage
    \/ \E r \in Requests : StreamBegin(r) \/ StreamChunk(r, <<"a">>) \/ StreamEnd(r)
    \/ Deliver
    \/ CaptureResolved
    \/ handleInitiateChatWithScreen

CaptureSpec == Init /\ [][CaptureNext]_vars

\* The chat while the App's effect may run again, in front of a provider
\* whose calls do not fail and whose deltas are all the same.
EffectNext ==
    \/ Construct
    \/ ToggleOverlay
    \/ \E value \in InputValues : SetInputValue(value)
    \/ SendMessage
    \/ \E r \in Requests : StreamBegin(r) \/ StreamChunk(r, <<"a">>) \/ StreamEnd(r)
    \/ Deliver
    \/ RegisterListeners

EffectSpec == Init /\ [][EffectNext]_vars

\* The overlay under its shortcuts, the window's blur event, the Escape key
\* in the input field and a caller that invokes 'hide-overlay' at any time.
OverlayNext ==
    \/ Construct
    \/ ToggleOverlay
    \/ EscapeShortcut
    \/ CaptureShortcut
    \/ \E value \in InputValues : SetInputValue(value)
    \/ HideOverlayKey
    \/ InvokeHideOverlay
    \/ handleOverlayShown
    \/ handleOverlayHidden
    \/ handleInitiateChatWithScreen

OverlaySpec == Init /\ [][OverlayNext]_vars

\* The main process and the relay under a caller that invokes the two chat
\* handlers with any arguments, one call at a time, while the provider
\* answers in any way.
RelayNext ==
    \/ Construct
    \/ \E message \in {Trim(v) : v \in InputValues} \ {<<>>},
          screenData \in ScreenDatas, outcome \in CallOutcomes :
          InvokeSendChatMessage(message, screenData, outcome)
    \/ \E message \in {Trim(v) : v \in InputValues} \ {<<>>},
          screenData \in ScreenDatas :
          InvokeSendChatMessageStream(message, screenData)
    \/ \E r \in Requests :
          \/ StreamBegin(r)
          \/ \E chunk \in Chunks : StreamChunk(r, chunk)
          \/ \E error \in ProviderErrors : StreamFail(r, error)
          \/ StreamEnd(r)
    \/ Receive

RelaySpec == Init /\ [][RelayNext]_vars

\* The functions of the relay, one of them called once, with any input of
\* its domain.
CallNext ==
    \/ \E error \in Errors, model \in Models : CallGetErrorResponse(error, model)
    \/ \E key \in {"", ConfiguredKey}, userMessage \in UserMessages,
          hasScreenData \in BOOLEAN, error \in Errors, model \in Models :
          CallBothFailing(key, userMessage, hasScreenData, error, model)
    \/ \E key \in {"", ConfiguredKey}, userMessage \in UserMessages,
          hasScreenData \in BOOLEAN, outcome \in CallOutcomes, model \in Models :
          CallSendMessage(key, userMessage, hasScreenData, outcome, model)
    \/ \E lines \in LineSeqs :
          \E cut \in 0..(Len(LineBytes(lines)) - 1) : CallOpenAIStream(lines, cut)
    \/ \E lines \in LineSeqs, terminated \in BOOLEAN :
          \E cut \in 0..(Len(ResponseBytes(lines, terminated)) - 1) \cup {0} :
              CallSendMessageStream(lines, terminated, cut)

CallSpec == Init /\ [][CallNext]_vars

-----------------------------------------------------------------------------
(* The claims *)

AssistantMessage(content) == [content |-> content, type |-> "assistant"]

\* C1: from Idle, startStreaming, then appendStreamContent once per chunk,
\* then finishStreaming appends exactly one assistant message, whose content
\* is the trimmed concatenation of the chunks, and appends nothing when that
\* concatenation is empty or only whitespace.
C1_FinishCommitsTrimmedConcat ==
    [][(handleStreamEnd /\ session = "open") =>
         store'.messages =
           IF Trim(fed) # <<>>
           THEN Append(store.messages, AssistantMessage(Trim(fed)))
           ELSE store.messages]_vars

\* C1 happens: two chunks, the first only whitespace, were committed trimmed.
C1_Witness ==
    /\ session = "committed"
    /\ fed = <<" ", "a">>
    /\ store.messages # <<>>
    /\ store.messages[Len(store.messages)] = AssistantMessage(<<"a">>)

\* C1 happens: a whitespace-only concatenation committed nothing.
C1_WitnessEmpty ==
    /\ session = "committed"
    /\ fed = <<" ", " ">>
    /\ store.messages = <<[content |-> <<"q">>, type |-> "user"]>>

\* C2: the stream-error handler, run while Streaming, returns the consumer to
\* Idle and appends exactly one message, the fixed fallback message, whatever
\* the buffer holds.
C2_ErrorAppendsOnlyFallback ==
    [][(handleStreamError /\ store.isStreaming) =>
         /\ ~store'.isStreaming
         /\ store'.messages =
              Append(store.messages, AssistantMessage(StreamErrorMessage))]_vars

\* C3: a chunk that arrives while the consumer is Idle is dropped: the stream
\* buffer is left as it was.
C3_IdleChunkDropped ==
    [][(handleStreamChunk /\ ~store.isStreaming) =>
         store'.streamContent = store.streamContent]_vars

\* C4: appendStreamContent called while the consumer is Idle leaves the
\* message log exactly as it was.
C4_IdleChunkKeepsMessages ==
    [][(handleStreamChunk /\ ~store.isStreaming) =>
         store'.messages = store.messages]_vars

\* C4 happens: a chunk was appended while the consumer was Idle.
C4_Witness == ~store.isStreaming /\ store.streamContent # <<>>

\* C5: every transition of the consumer from Streaming back to Idle appends
\* at most one message to the log.
C5_AtMostOneMessagePerFinish ==
    [][(store.isStreaming /\ ~store'.isStreaming) =>
         Len(store'.messages) <= Len(store.messages) + 1]_vars

\* C6: the stream buffer never holds chunks of two different requests.
C6_BufferOfOneRequest == Cardinality(bufOwner) <= 1

\* C7: at most one outbound request is in flight at any time.
C7_OneRequestInFlight == Cardinality(InFlight) <= 1

RendererIdle == ~store.isProcessing /\ ~store.isLoading /\ ~store.isStreaming

\* C8: every submission that put the UI into Streaming is followed by a state
\* in which isProcessing, isLoading and isStreaming are all false.
C8_StreamingLeadsToIdle ==
    (store.isProcessing /\ store.isStreaming) ~> RendererIdle

\* C8 happens: a request whose call failed has ended and the UI is Idle again.
C8_Witness ==
    /\ nextReq = 1
    /\ handler[1].pos = "done"
    /\ ipc = <<>>
    /\ RendererIdle
    /\ store.messages =
         <<[content |-> <<"q">>, type |-> "user"],
           AssistantMessage(getErrorResponse(NoError, DefaultModel))>>

\* C9: with no API credential configured the application still serves
\* requests: once started it is up, with its handlers in place.
C9_NoCredentialStillServes ==
    (apiKey = "" /\ app # "starting") => app = "ready"

\* C10: sendMessage and sendMessageStream never raise to their caller, so no
\* 'chat-message-stream-error' and no rejected invoke is due to the relay.
C10_RelayNeverRaises ==
    /\ ~reply.raised
    /\ \A i \in 1..Len(ipc) :
         ipc[i].type \in {"chat-message-stream-error", "invoke-rejected"}
           => ipc[i].error # "relay"

\* C10 happens: both calls failed and both failures came back as the fixed
\* text of the failure.
C10_Witness ==
    /\ reply.state = "resolved"
    /\ reply.value = <<"Rate limit exceeded. Please try again in a moment.">>
    /\ \E r \in Requests : handler[r].pos = "draining"
    /\ ipc # <<>>
    /\ ipc[Len(ipc)].type = "chat-message-stream-chunk"
    /\ ipc[Len(ipc)].chunk = <<"Network error. Please check your internet connection.">>

\* The error texts, as the reference of C11 names them.
InvalidKeyText ==
    <<"Invalid API key. Please check your OpenAI API key in the environment variables.">>

ModelNotFoundText(model) ==
    <<"Model \"", model, "\" not found. Try using \"gpt-4o\" or \"gpt-4\" instead. Update your OPENAI_MODEL in the .env file.">>

RateLimitText == <<"Rate limit exceeded. Please try again in a moment.">>

BadRequestText ==
    <<"Bad request. The image might be too large or in an unsupported format.">>

NetworkErrorText == <<"Network error. Please check your internet connection.">>

UnexpectedErrorText == <<"An unexpected error occurred. Please try again.">>

\* The reference mapping of C11: the four statuses first, then the two
\* network codes of an HTTP-client error, then everything else.
ErrorTextReference(error, model) ==
    CASE error.isAxios /\ error.status = 401 -> InvalidKeyText
      [] error.isAxios /\ error.status = 404 -> ModelNotFoundText(model)
      [] error.isAxios /\ error.status = 429 -> RateLimitText
      [] error.isAxios /\ error.status = 400 -> BadRequestText
      [] /\ error.isAxios
         /\ error.status \notin {401, 404, 429, 400}
         /\ error.code \in {"ENOTFOUND", "ECONNREFUSED"} -> NetworkErrorText
      [] OTHER -> UnexpectedErrorText

\* C11: getErrorResponse is total and returns, for every error, the text the
\* reference mapping gives, a status taking precedence over a network code.
C11_ErrorTextIsReference ==
    call.fn = "getErrorResponse" =>
        call.result = ErrorTextReference(call.error, call.model)

\* C11 happens: an error with both a status and a network code was mapped by
\* its status, on a service configured with another model than the default.
C11_Witness ==
    /\ call.fn = "getErrorResponse"
    /\ call.error = [isAxios |-> TRUE, status |-> 404, code |-> "ENOTFOUND"]
    /\ call.model = "gpt-4"
    /\ call.result = ModelNotFoundText("gpt-4")

\* The chunk messages of request r that a step puts on the channel.
ChunksSent(r) ==
    IF Len(ipc') > Len(ipc)
    THEN SelectSeq(SubSeq(ipc', Len(ipc) + 1, Len(ipc')),
                   LAMBDA e : e.type = "chat-message-stream-chunk" /\ e.req = r)
    ELSE <<>>

\* C12: when the streamed call of a request fails, sendMessageStream yields
\* one fallback text, the text of that failure, and then ends: the request is
\* left with nothing to do but end, and no chunk of it follows the fallback.
C12_OneFallbackThenEnd ==
    [][\A r \in Requests :
         /\ \A error \in ProviderErrors :
               StreamFail(r, error) =>
                 /\ handler'[r].pos \in {"draining", "done"}
                 /\ handler'[r].pos = "draining" =>
                       ChunksSent(r) =
                         <<Event("chat-message-stream-chunk", r,
                                 getErrorResponse(error, DefaultModel), "")>>
                 /\ handler'[r].pos = "done" => ChunksSent(r) = <<>>
         /\ handler[r].pos \in {"draining", "done"} =>
               /\ handler'[r].pos \in {handler[r].pos, "done"}
               /\ ChunksSent(r) = <<>>]_vars

\* C12 happens: the call failed after one chunk, and the fallback text was
\* yielded after it.
C12_Witness ==
    /\ nextReq = 1
    /\ relayed[1].deltas = <<"a">>
    /\ handler[1].pos = "draining"
    /\ Len(ipc) = 2
    /\ ipc[1].chunk = <<"a">>
    /\ ipc[2] = Event("chat-message-stream-chunk", 1, BadRequestText, "")

\* C13: on a failure the streaming and the non-streaming path agree: the
\* stream yields, as its only chunk, the text sendMessage returns for the
\* same error and configuration, and without a credential both give the same
\* canned text for the same prompt and image presence.
C13_PathsAgreeOnFailure ==
    call.fn = "failing" =>
        /\ call.returned.kind = "return"
        /\ call.yields = <<call.returned.value>>

\* C13 happens: both paths met a rate limit and gave the rate-limit text.
C13_Witness ==
    /\ call.fn = "failing"
    /\ call.key = ConfiguredKey
    /\ call.error.status = 429
    /\ call.returned.value = RateLimitText
    /\ call.yields = <<RateLimitText>>

\* C13 happens: both paths, without a credential, gave the canned text.
C13_WitnessNoCredential ==
    /\ call.fn = "failing"
    /\ call.key = ""
    /\ call.hasScreenData
    /\ call.yields = <<getMockResponse(call.userMessage, TRUE)>>

\* The content delta a line carries: <<>> for a line that is no well-formed
\* data line or has no content or an empty one.
DeltaOf(line) ==
    CASE line = <<"data: ", "{", "a", "}">> -> <<"a">>
      [] line = <<"data: ", "{", "C3", "A9", "}">> -> <<"e'">>
      [] OTHER -> <<>>

\* The non-empty deltas of the lines before the first sentinel, in order.
RECURSIVE DeltasBeforeDone(_)
DeltasBeforeDone(lines) ==
    IF lines = <<>> \/ Head(lines) = DoneLine THEN <<>>
    ELSE (IF DeltaOf(Head(lines)) # <<>> THEN <<DeltaOf(Head(lines))>> ELSE <<>>)
         \o DeltasBeforeDone(Tail(lines))

\* C14: for every sequence of newline-terminated lines, however the network
\* cuts it into chunks, the parser surfaces exactly, in order, the non-empty
\* content deltas of the well-formed data lines before the first sentinel.
C14_SurfacesDeltasBeforeDone ==
    call.fn = "callOpenAIStream" => call.yields = DeltasBeforeDone(call.lines)

\* The same, for the responses whose characters each arrive in one chunk.
C14_WholeCharacters ==
    (/\ call.fn = "callOpenAIStream"
     /\ ~(/\ call.cut > 0
          /\ LineBytes(call.lines)[call.cut] = "C3"
          /\ LineBytes(call.lines)[call.cut + 1] = "A9"))
    => call.yields = DeltasBeforeDone(call.lines)

\* What finishStreaming is to add to the log for the deltas d1 .. dn.
CommitOf(deltas, messages) ==
    IF Trim(deltas) # <<>>
    THEN Append(messages, AssistantMessage(Trim(deltas)))
    ELSE messages

\* C15: a response whose frames carry the deltas d1 .. dn and then end the
\* stream reaches the consumer as those chunks in order and is finalized, at
\* its end message, to one committed message trim(d1 + ... + dn); stated for
\* the latest request, the overlay not dismissed since it was submitted.
C15_ResponseCommittedWhole ==
    [][(/\ handleStreamEnd
        /\ Head(ipc).req = nextReq
        /\ relayed[nextReq].completed
        /\ session = "open")
       => store'.messages = CommitOf(relayed[nextReq].deltas, store.messages)]_vars

\* The same, for the first request only.
C15_FirstResponseCommittedWhole ==
    [][(/\ handleStreamEnd
        /\ Head(ipc).req = 1
        /\ nextReq = 1
        /\ relayed[1].completed
        /\ session = "open")
       => store'.messages = CommitOf(relayed[1].deltas, store.messages)]_vars

\* C16: when the overlay is dismissed the message log is cleared: after the
\* renderer has handled 'overlay-hidden' the messages list is empty.
C16_DismissalClearsMessages ==
    [][handleOverlayHidden => store'.messages = <<>>]_vars

C17_WitnessNoContent ==
    /\ call.fn = "sendMessage"
    /\ call.key = ConfiguredKey
    /\ call.outcome.kind = "response"
    /\ call.outcome.body.choices = << <<>> >>
    /\ call.returned = Return(NoResponseMessage)

\* C18: the screen is captured only on a Cmd/Ctrl+Enter: a run of
\* captureScreen happens only in the step of that key in the input field or
\* of the global shortcut with the overlay visible, and never in the step of
\* a plain Enter or of showing, hiding or toggling the overlay.
C18_CaptureOnlyOnCmdEnter ==
    [][/\ captures' # captures =>
            \/ CaptureAndSendMessage
            \/ (CaptureShortcut /\ isOverlayVisible)
       /\ (SendMessage \/ ToggleOverlay \/ EscapeShortcut \/ HideOverlayKey) =>
            captures' = captures]_vars

\* C18 happens: the screen was captured twice and a capture is shown.
C18_Witness ==
    /\ captures = 2
    /\ store.isScreenCaptured
    /\ store.currentScreenData = Screenshot(2)
    /\ store.placeholder = ScreenPlaceholder

\* C19: startStreaming is invoked only while the consumer is Idle: at every
\* submission that goes through, isStreaming is false.
C19_StartStreamingFromIdle ==
    [][(SendMessage /\ nextReq' # nextReq) => ~store.isStreaming]_vars

\* C19 happens: startStreaming was invoked a second time, the consumer having
\* gone back to Idle after the first.
C19_Witness ==
    /\ nextReq = 2
    /\ session = "open"
    /\ store.isStreaming
    /\ store.streamContent = <<>>

\* C20: after finishStreaming, from whatever state and with whatever buffer
\* it is invoked, the buffer is empty and isStreaming, isLoading and
\* isProcessing are false, and the input value, the placeholder and the
\* captured screen data are as they were.
C20_FinishStreamingFrame ==
    [][(handleStreamEnd \/ handleStreamError \/ SendMessageRejected) =>
         /\ store'.streamContent = <<>>
         /\ ~store'.isStreaming
         /\ ~store'.isLoading
         /\ ~store'.isProcessing
         /\ store'.inputValue = store.inputValue
         /\ store'.placeholder = store.placeholder
         /\ store'.currentScreenData = store.currentScreenData]_vars

\* C20 happens: finishStreaming has just committed a stream, and the screen
\* captured while it ran is still stored and announced by the placeholder.
C20_Witness ==
    /\ session = "committed"
    /\ fed # <<>>
    /\ ipc # <<>>
    /\ Head(ipc).type = "invoke-resolved"
    /\ Head(ipc).req = nextReq
    /\ RendererIdle
    /\ store.streamContent = <<>>
    /\ store.currentScreenData # "null"
    /\ store.placeholder = ScreenPlaceholder

\* What a step puts on the channel for request r, of the given types.
Sent(r, types) ==
    IF Len(ipc') > Len(ipc)
    THEN SelectSeq(SubSeq(ipc', Len(ipc) + 1, Len(ipc')),
                   LAMBDA e : e.type \in types /\ e.req = r)
    ELSE <<>>

StreamMessageTypes ==
    {"chat-message-stream-chunk", "chat-message-stream-end",
     "chat-message-stream-error", "invoke-rejected"}

\* The messages are chunks closed by one message of terminals, and the
\* handler of r ends in the step that sends that one.
ChunksThenOne(r, terminals) ==
    LET sent == Sent(r, StreamMessageTypes)
    IN  /\ handler[r].pos = "done" => sent = <<>>
        /\ \A i \in 1..Len(sent) :
              IF i = Len(sent) /\ handler'[r].pos = "done"
              THEN sent[i].type \in terminals
              ELSE sent[i].type = "chat-message-stream-chunk"
        /\ (handler[r].pos # "done" /\ handler'[r].pos = "done") => sent # <<>>

\* C21: for each streaming request the main process emits chunk messages
\* and then exactly one terminal message, 'chat-message-stream-end' or
\* 'chat-message-stream-error', and no chunk of the request after it.
C21_ChunksThenEndOrError ==
    [][\A r \in Requests :
         ChunksThenOne(r, {"chat-message-stream-end",
                           "chat-message-stream-error"})]_vars

\* C21 as the handler has it: the chunk messages are closed by exactly one of
\* the end message, the error message or, when the error message cannot be
\* sent either, the rejection of the invoke.
C21_ChunksThenEndErrorOrRejection ==
    [][\A r \in Requests :
         ChunksThenOne(r, {"chat-message-stream-end",
                           "chat-message-stream-error",
                           "invoke-rejected"})]_vars

\* C21 happens: a chunk of the request was sent and taken, the send of the
\* next one threw, and the error message closed the request.
C21_Witness ==
    /\ nextReq = 1
    /\ handler[1].pos = "done"
    /\ relayed[1].deltas = <<"a", " ">>
    /\ Len(ipc) = 2
    /\ ipc[1].type = "chat-message-stream-error"
    /\ ipc[1].req = 1

\* C21 happens: the request was closed by the rejection of the invoke.
C21_WitnessRejection ==
    /\ nextReq = 1
    /\ handler[1].pos = "done"
    /\ ipc = <<Event("invoke-rejected", 1, <<>>, "send")>>

IsPrefix(old, new) ==
    Len(old) <= Len(new) /\ SubSeq(new, 1, Len(old)) = old

\* C22: the message log is append-only: every step leaves the messages it
\* held as they were, in content, role and order, and what a step adds is
\* the user's message on a submission, the trimmed buffer on a finished
\* stream, or one of the fixed error and capture-failure notices.
C22_LogAppendOnly ==
    [][/\ IsPrefix(store.messages, store'.messages)
       /\ \A i \in (Len(store.messages) + 1)..Len(store'.messages) :
            LET added == store'.messages[i]
            IN  \/ /\ SendMessage
                   /\ added = [content |-> Trim(store.inputValue), type |-> "user"]
                \/ /\ handleStreamEnd \/ handleStreamError \/ SendMessageRejected
                   /\ added = AssistantMessage(Trim(store.streamContent))
                \/ /\ handleStreamError \/ SendMessageRejected
                   /\ added = AssistantMessage(StreamErrorMessage)
                \/ /\ CaptureResolved
                   /\ added = AssistantMessage(CaptureFailedMessage)]_vars

\* C22 happens: the log holds a user message, a capture-failure notice and
\* an error notice, and the overlay has been dismissed since.
C22_Witness ==
    /\ Len(store.messages) = 3
    /\ store.messages[1] = [content |-> <<"q">>, type |-> "user"]
    /\ \E i \in 2..3 : store.messages[i] = AssistantMessage(CaptureFailedMessage)
    /\ \E i \in 2..3 : store.messages[i] = AssistantMessage(StreamErrorMessage)
    /\ ~isOverlayVisible
    /\ ipc = <<>>

\* C23: a captured screenshot is consumed once: no two requests carry the
\* same screenshot, and when a request's invoke has returned the stored
\* screen data is null and the capture indicator is off.
C23_ScreenshotConsumedOnce ==
    [][/\ \A r1, r2 \in Requests :
            (r1 < r2 /\ r2 <= nextReq' /\ handler'[r1].screenData # "null")
                => handler'[r2].screenData # handler'[r1].screenData
       /\ SendMessageResolved =>
            /\ store'.currentScreenData = "null"
            /\ ~store'.isScreenCaptured]_vars

\* C24: each chunk event is appended to the stream buffer at most once, and
\* each end or error event runs its handler, finishStreaming included, at most
\* once, however many times the effect has registered the listeners.
C24_EventHandledOnce ==
    [][/\ handleStreamChunk =>
            store' \in {store, appendStreamContent(store, Head(ipc).chunk)}
       /\ handleStreamEnd => store' \in {store, finishStreaming(store)}
       /\ handleStreamError =>
            store' \in {store, finishStreaming(
                                  addMessage(store, StreamErrorMessage, "assistant"))}]_vars

\* C25: stream parsing does not depend on how the transport splits the
\* bytes: for every text of newline-terminated lines and every partition of
\* it into network chunks, callOpenAIStream surfaces the chunks it surfaces
\* when the whole text arrives in one piece.
C25_PartitionIndependent ==
    call.fn = "callOpenAIStream"
        => call.yields = callOpenAIStream(NetworkChunks(LineBytes(call.lines), 0))

\* C26: when the connection closes without the sentinel, sendMessageStream
\* ends normally and has surfaced, in order, the content delta of every data
\* line of the response, a final line without its newline included.
C26_SurfacesEveryLineAtClose ==
    (/\ call.fn = "sendMessageStream"
     /\ \A i \in 1..Len(call.lines) : call.lines[i] # DoneLine)
    => /\ call.result.ended = "return"
       /\ call.result.yields = DeltasBeforeDone(call.lines)

\* The end message of request r is being handled, the streamed call of r
\* having failed after at least one chunk; the overlay was not dismissed
\* since r was submitted.
FailedStreamEnds(r) ==
    /\ handleStreamEnd
    /\ Head(ipc).req = r
    /\ ~relayed[r].completed
    /\ relayed[r].deltas # <<>>
    /\ session = "open"

\* The log after one message, the k chunks followed by a fallback text and
\* trimmed, has been committed.
FallbackCommitted(r) ==
    \E error \in StreamFailures :
        store'.messages =
            CommitOf(relayed[r].deltas \o getErrorResponse(error, DefaultModel),
                     store.messages)

\* C27: when the provider stream of a request fails after k >= 1 chunks, the
\* fallback text reaches the consumer as one more chunk followed by the end
\* message, and the consumer commits one assistant message, the trimmed
\* concatenation of the k chunks and the fallback text, and no error notice;
\* stated for the latest request.
C27_FallbackCommittedWithChunks ==
    [][FailedStreamEnds(nextReq) => FallbackCommitted(nextReq)]_vars

\* The same, for the first request only.
C27_FirstFallbackCommittedWithChunks ==
    [][(FailedStreamEnds(1) /\ nextReq = 1) => FallbackCommitted(1)]_vars

FlagsAgree(s) ==
    /\ s.isStreaming = s.isProcessing
    /\ s.isProcessing = s.isLoading

\* C28: between event handlers isStreaming, isProcessing and isLoading have
\* the same value, so the input is disabled exactly while a stream session
\* is active: they turn true together at a submission, turn false together
\* when a stream is finished or the state is cleared, and no other step
\* changes them.
C28_FlagsAgree ==
    /\ []FlagsAgree(store)
    /\ [][/\ (~store.isProcessing /\ store'.isProcessing) => SendMessage
          /\ (store.isProcessing /\ ~store'.isProcessing) =>
               \/ handleStreamEnd
               \/ handleStreamError
               \/ SendMessageRejected
               \/ handleOverlayHidden]_vars

\* C28 happens: a second submission has turned the three flags on again and
\* chunks are in the buffer.
C28_Witness ==
    /\ nextReq = 2
    /\ store.isStreaming /\ store.isProcessing /\ store.isLoading
    /\ store.streamContent # <<>>
    /\ Len(store.messages) = 3

\* A captureAndSendMessage is waiting for the result of its capture.
CaptureInFlight ==
    \E i \in 1..Len(ipc) : ipc[i].type = "capture-resolved"

\* C29: whenever no screen capture is in flight, the capture indicator is on
\* exactly when screen data is stored.
C29_IndicatorIffScreenData ==
    ~CaptureInFlight =>
        (store.isScreenCaptured <=> store.currentScreenData # "null")

\* C30: isOverlayVisible says whether the overlay window is shown; while it
\* is false the Escape and CommandOrControl+Return shortcuts and the blur
\* handler change nothing; and every step that takes it from true to false
\* sends 'overlay-hidden' to the renderer.
C30_FlagIsWindowState ==
    /\ [](isOverlayVisible <=> overlayWindow = "shown")
    /\ [][/\ ((EscapeShortcut \/ CaptureShortcut) /\ ~isOverlayVisible)
                => UNCHANGED vars
          /\ (isOverlayVisible /\ ~isOverlayVisible')
                => ipc' = Append(ipc, Event("overlay-hidden", 0, <<>>, ""))]_vars

\* C30 happens: the overlay was shown, hidden, and 'hide-overlay' was invoked
\* once more while it was hidden.
C30_Witness ==
    /\ ~isOverlayVisible
    /\ overlayWindow = "hidden"
    /\ captures = 1
    /\ store.currentScreenData = "null"
    /\ store.messages = <<>>
    /\ ipc = <<Event("overlay-hidden", 0, <<>>, ""), Event("overlay-hidden", 0, <<>>, "")>>

=============================================================================
